---- MODULE Spec2Model ----
(***************************************************************************)
(* Model of the SageMaker immersion-day labs.                              *)
(*                                                                         *)
(*   Lab 1   data preparation of the diabetes table: class-conditional     *)
(*           median imputation, one-hot encoding, seeded shuffle and the   *)
(*           three-way np.split (src/Lab1+2v1.ipynb).                      *)
(*   Lab 4   the Step Functions workflow built with the Data Science SDK   *)
(*           and its executions (src/unnamed/part_000, first notebook).    *)
(*   Lab 5   the training pipeline that starts the state machine from a    *)
(*           config.zip uploaded to S3 (src/unnamed/part_000, second       *)
(*           notebook, and src/mlops/train_pipeline.yml).                  *)
(*                                                                         *)
(* Numeric cells of the table are stored in half units (a cell holding 2*x *)
(* stands for the value x), so that the mean of the two middle values that *)
(* np.median takes on an even number of rows is again an integer.          *)
(***************************************************************************)
EXTENDS Integers, Sequences, FiniteSets, TLC

\* ------------------------------------------------------------------ bounds
\* Largest table whose every row content and every shuffle is enumerated.
MaxRows == 3
\* Largest table length for which the split is enumerated (labels only).
MaxSplitRows == 99

\* ------------------------------------------------------- program constants
\* "We have 768 patient records"
DatasetRows == 768
\* model_data.sample(frac=1, random_state=1729)
random_state == 1729

Runs == {1, 2}

\* Latest reading of the wall clock, in ticks.
MaxClock == 2
\* How many times the workflow.execute cell is run.
MaxSdkCalls == 2
\* Ticks of the model clock in one second of wall-clock time.
TicksPerSecond == 2
\* How many config.json files are written, and how many zips are uploaded.
MaxConfigs == 2
MaxUploads == 2
\* How many commits master of the CodeCommit repository comes to hold.
MaxCommits == 3
\* Largest table that is followed to its csv files.
MaxFileRows == 4
\* Largest array given to predict, and largest mini-batch size asked for.
MaxPredictRows == 4
MaxBatchRows == 3

\* ------------------------------------------------------------ Lab 1 state
VARIABLES
    data,        \* the table read from dataset/diabetes.csv
    mt,          \* mt[seed]: the order a generator seeded with seed emits
    run,         \* which run of the notebook is executing
    pc,          \* the last data-preparation cell that has run
    frame,       \* the dataframe held by the running notebook
    model_data,  \* the encoded table, as kept by the notebook
    result       \* result[r]: <<train_data, validation_data, test_data>>

prepVars == <<data, mt, run, pc, frame, model_data, result>>

\* ------------------------------------------------------ Lab 4 and 5 state
VARIABLES
    clock,       \* the wall clock when it was last read, in ticks
    uuidLast,    \* the last timestamp uuid1 has handed out
    sdkCalls,    \* the calls of workflow.execute: inputs and outcome
    executions,  \* the executions of the state machines, oldest first
    sagemaker    \* the jobs, models and endpoints created so far

flowVars == <<clock, uuidLast, sdkCalls, executions, sagemaker>>

VARIABLES
    configFile,    \* config.json in the notebook's directory
    configGen,     \* how many config.json files have been written
    trigger,       \* the versions of the object at S3Bucket/S3Key, oldest first
    versioning,    \* whether the trigger bucket has versioning enabled
    trainWorkflow, \* the definition of the deployed training state machine
    deployed,      \* whether the stack sm-id-train-pipeline exists
    detected,      \* how many versions the pipeline's change detection has seen
    runs           \* the executions of the training pipeline, oldest first

pipeVars == <<configFile, configGen, trigger, versioning, trainWorkflow,
              deployed, detected, runs>>

\* ------------------------------------- state of the infrastructure pipeline
VARIABLES
    master,        \* the commits on master of the CodeCommit repository
    infraDetected, \* how many commits the pipeline's change detection has seen
    infraRuns,     \* the executions of the infrastructure pipeline
    ecr            \* the images of the ECR repositories: name, tag, content

infraVars == <<master, infraDetected, infraRuns, ecr>>

\* ------------------------------------- Lab 1: files, uploads and inference
VARIABLES
    session,       \* the region and account the notebooks run in
    files,         \* the csv files in the notebook's directory
    s3objects,     \* the objects uploaded to the session's default bucket
    call,          \* the running call of predict: its arguments and locals
    payloads,      \* the request bodies sent to the endpoint, oldest first
    predictions    \* the array predict returned

outVars == <<session, files, s3objects, call, payloads, predictions>>

moreVars == <<infraVars, outVars>>

\* Nothing of Labs 4 and 5 has run.
FlowIdle ==
    /\ clock = 0
    /\ uuidLast = -1
    /\ sdkCalls = <<>>
    /\ executions = <<>>
    /\ sagemaker = {}

\* ---------------------------------------------------------------- helpers
Range(s) == {s[i] : i \in DOMAIN s}

RECURSIVE Insert(_, _)
Insert(x, s) ==
    IF s = <<>> THEN <<x>>
    ELSE IF x <= Head(s) THEN <<x>> \o s
    ELSE <<Head(s)>> \o Insert(x, Tail(s))

RECURSIVE Sort(_)
Sort(s) == IF s = <<>> THEN <<>> ELSE Insert(Head(s), Sort(Tail(s)))

Perms(n) == {p \in [1..n -> 1..n] : \A i, j \in 1..n : p[i] = p[j] => i = j}

\* A few orders of a long table: kept, reversed, rotated by one and by two.
PermFamily(n) ==
    { [i \in 1..n |-> i],
      [i \in 1..n |-> n + 1 - i],
      [i \in 1..n |-> (i % n) + 1],
      [i \in 1..n |-> ((i + 1) % n) + 1] }

\* ------------------------------------------------------------ the dataset
NumericColumns == {"Glucose", "BloodPressure", "SkinThickness", "Insulin",
                   "BMI", "DiabetesPedigreeFunction", "Age"}
Columns == NumericColumns \cup {"Pregnancies", "Outcome"}

Cells(o, p, g, bp, st, ins, bmi) ==
    [c \in Columns |->
        CASE c = "Outcome" -> o
          [] c = "Pregnancies" -> p
          [] c = "Glucose" -> g
          [] c = "BloodPressure" -> bp
          [] c = "SkinThickness" -> st
          [] c = "Insulin" -> ins
          [] c = "BMI" -> bmi
          [] c = "DiabetesPedigreeFunction" -> 2
          [] c = "Age" -> 42]

\* Patient records the bounded tables are drawn from (half units; a zero is
\* the "missing" sentinel of the dataset).
SampleRows ==
    { Cells(1, 0, 0, 4, 0, 0, 2),
      Cells(1, 1, 6, 0, 2, 0, 4),
      Cells(0, 1, 2, 2, 0, 8, 0),
      Cells(0, 0, 0, 6, 4, 0, 6) }

NoDummies == [k \in {} |-> 0]

\* read_csv labels the rows 0..n-1; the model labels them 1..n.
ReadCsv(cells) ==
    [i \in 1..Len(cells) |-> [idx |-> i, cells |-> cells[i], dummies |-> NoDummies]]

Tables(n) == {ReadCsv(t) : t \in [1..n -> SampleRows]}

\* A table of n rows reduced to its labels (np.split reads positions only).
LabelFrame(n) ==
    [i \in 1..n |-> [idx |-> i, cells |-> NoDummies, dummies |-> NoDummies]]

\* ------------------------------------------------------------- imputation
columnsToImpute == <<"BloodPressure", "BMI", "Glucose", "Insulin", "SkinThickness">>

\* data.loc[data['Outcome'] == v]
LocOutcome(df, v) == SelectSeq(df, LAMBDA r : r.cells["Outcome"] = v)

Column(df, column) == [i \in 1..Len(df) |-> df[i].cells[column]]

\* The median of the values that are not the sentinel (not what the lab does).
NpMedianNonZero(vals) ==
    LET s == Sort(SelectSeq(vals, LAMBDA v : v # 0))
        k == Len(s)
    IN  IF k = 0 THEN 0
        ELSE IF k % 2 = 1 THEN s[(k + 1) \div 2]
        ELSE (s[k \div 2] + s[k \div 2 + 1]) \div 2

\* np.median: the middle value, or the mean of the two middle values.
NpMedian(vals) ==
    LET s == Sort(vals)
        k == Len(s)
    IN  IF k % 2 = 1 THEN s[(k + 1) \div 2]
        ELSE (s[k \div 2] + s[k \div 2 + 1]) \div 2

\* df.replace({column: old}, new)
Replace(df, column, old, new) ==
    [i \in 1..Len(df) |->
        [df[i] EXCEPT !.cells[column] = IF @ = old THEN new ELSE @]]

\* One pass of the loop body for one class: the median is taken first, over
\* the column as it stands (zeros included); an empty class has nothing to
\* replace.
ImputeColumn(df, column) ==
    IF df = <<>> THEN df
    ELSE Replace(df, column, 0, NpMedian(Column(df, column)))

RECURSIVE ImputeLoop(_, _)
ImputeLoop(df, columns) ==
    IF columns = <<>> THEN df
    ELSE ImputeLoop(ImputeColumn(df, Head(columns)), Tail(columns))

\* The whole imputation cell: df1, df2, the loop, pd.concat([df1, df2]).
ImputeCell(df) ==
    ImputeLoop(LocOutcome(df, 1), columnsToImpute)
        \o ImputeLoop(LocOutcome(df, 0), columnsToImpute)

\* --------------------------------------------------------------- encoding
\* A cast of Pregnancies alone.
PregnanciesOnly == {"Pregnancies"}

\* data.astype({'Pregnancies':'category','Outcome':'category'})
CategoryColumns == {"Pregnancies", "Outcome"}

Categories(df, column) == {df[i].cells[column] : i \in 1..Len(df)}

DummyColumns(df) ==
    {k \in CategoryColumns \X (UNION {Categories(df, c) : c \in CategoryColumns}) :
        k[2] \in Categories(df, k[1])}

\* pd.get_dummies: every category column gives one indicator column per
\* category and is dropped; the other columns are kept.
GetDummies(df) ==
    LET dc == DummyColumns(df)
    IN  [i \in 1..Len(df) |->
            [idx |-> df[i].idx,
             cells |-> [c \in Columns \ CategoryColumns |-> df[i].cells[c]],
             dummies |-> [k \in dc |-> IF df[i].cells[k[1]] = k[2] THEN 1 ELSE 0]]]

\* ---------------------------------------------------------------- shuffle
Permute(df, p) == [i \in 1..Len(df) |-> df[p[i]]]

\* A shuffle whose order changes from one run to the next (no fixed seed).
SampleUnseeded(df, seed) ==
    LET n == Len(df)
    IN  [i \in 1..n |-> df[mt[random_state][((i + run - 2) % n) + 1]]]

\* df.sample(frac=1, random_state=seed): all rows, in the order the generator
\* seeded with seed emits.
Sample(df, seed) == Permute(df, mt[seed])

\* ------------------------------------------------------------------ split
\* The largest power of two strictly below q (q >= 2).
RECURSIVE Pow2Below(_)
Pow2Below(q) == IF q <= 2 THEN 1 ELSE 2 * Pow2Below((q + 1) \div 2)

\* The literals 0.7 and 0.9 as IEEE doubles: tenths/10 + err/(10 * 2^53).
\*   0.7 is 6305039478318694 / 2^53, and 10 * 6305039478318694 = 7 * 2^53 - 4
\*   0.9 is 8106479329266893 / 2^53, and 10 * 8106479329266893 = 9 * 2^53 + 2
Double07 == [tenths |-> 7, err |-> -4]
Double09 == [tenths |-> 9, err |-> 2]

\* int(c * n) for a table length n: the exact product q + r/10 + err*n/(10*2^53)
\* is rounded to the nearest double (ties to even) and truncated.  With r > 0
\* the product is far from an integer and truncates to q.  With r = 0 and
\* err > 0 it rounds to q or just above.  With r = 0 and err < 0 it lies
\* below q by |err|*n/(10*2^53); the doubles just below q are 2^(e-52) apart,
\* 2^e the largest power of two below q, so the product rounds to q when that
\* distance is at most half a step (a tie goes to q, whose mantissa is even)
\* and to the double below q otherwise.
IntTimes(c, n) ==
    LET q == (c.tenths * n) \div 10
        r == (c.tenths * n) % 10
    IN  IF r # 0 \/ c.err >= 0 \/ q < 2 THEN q
        ELSE IF (-c.err) * n > 10 * Pow2Below(q) THEN q - 1 ELSE q

\* The two cut positions of the split cell.
SplitIndices(n) == <<IntTimes(Double07, n), IntTimes(Double09, n)>>

\* A split that loses the row at the second cut.
NpSplitDropsRow(ary, indices) ==
    <<SubSeq(ary, 1, indices[1]),
      SubSeq(ary, indices[1] + 1, indices[2]),
      SubSeq(ary, indices[2] + 2, Len(ary))>>

\* np.split(ary, [a, b]) == <<ary[:a], ary[a:b], ary[b:]>>
NpSplit(ary, indices) ==
    <<SubSeq(ary, 1, indices[1]),
      SubSeq(ary, indices[1] + 1, indices[2]),
      SubSeq(ary, indices[2] + 1, Len(ary))>>

\* ---------------------------------------------------------- Lab 1 actions
NoResult == [r \in Runs |-> <<>>]

Impute ==
    /\ pc = "read"
    /\ frame' = ImputeCell(frame)
    /\ pc' = "imputed"
    /\ UNCHANGED <<data, mt, run, model_data, result, flowVars, pipeVars, moreVars>>

Encode ==
    /\ pc = "imputed"
    /\ frame' = GetDummies(frame)
    /\ model_data' = frame'
    /\ pc' = "encoded"
    /\ UNCHANGED <<data, mt, run, result, flowVars, pipeVars, moreVars>>

\* The split cell, first half: model_data.sample(frac=1, random_state=1729).
Shuffle ==
    /\ pc = "encoded"
    /\ frame' = Sample(model_data, random_state)
    /\ pc' = "shuffled"
    /\ UNCHANGED <<data, mt, run, model_data, result, flowVars, pipeVars, moreVars>>

\* The split cell, second half: np.split at int(0.7 * n) and int(0.9 * n).
Split ==
    /\ pc = "shuffled"
    /\ result' = [result EXCEPT ![run] = NpSplit(frame, SplitIndices(Len(model_data)))]
    /\ pc' = "split"
    /\ UNCHANGED <<data, mt, run, frame, model_data, flowVars, pipeVars, moreVars>>

\* The notebook is run a second time on the same dataset/diabetes.csv.
Rerun ==
    /\ pc = "split"
    /\ run = 1
    /\ run' = 2
    /\ pc' = "read"
    /\ frame' = data
    /\ model_data' = <<>>
    /\ UNCHANGED <<data, mt, result, flowVars, pipeVars, moreVars>>

\* =================================================== Lab 4: the workflow
\* JSON values of an execution input.  A string is a text followed by the
\* rendering of a number (n = -1: nothing follows), as in 'xgboost-{}'.
NoKeys == [k \in {} |-> <<"", -1>>]
Str(text) == [t |-> "str", v |-> <<text, -1>>, sub |-> NoKeys]
Formatted(text, n) == [t |-> "str", v |-> <<text, n>>, sub |-> NoKeys]
Num(n) == [t |-> "int", v |-> <<"", n>>, sub |-> NoKeys]
Dict(f) == [t |-> "dict", v |-> <<"", -1>>, sub |-> f]

\* A parameter of a state: a literal, or a path $$.Execution.Input['key'].
Lit(text) == [path |-> FALSE, s |-> text]
Path(key) == [path |-> TRUE, s |-> key]

\* ExecutionInput(schema={'JobName': str, 'ModelName': str, 'EndpointName': str})
execution_input ==
    [k \in {"JobName", "ModelName", "EndpointName"} |-> "str"]

\* xgb.set_hyperparameters(...)
HyperParameters ==
    [h \in {"max_depth", "eta", "gamma", "min_child_weight", "subsample",
            "silent", "objective", "num_round"} |->
        CASE h = "max_depth" -> Lit("5")
          [] h = "eta" -> Lit("0.2")
          [] h = "gamma" -> Lit("4")
          [] h = "min_child_weight" -> Lit("6")
          [] h = "subsample" -> Lit("0.8")
          [] h = "silent" -> Lit("0")
          [] h = "objective" -> Lit("binary:logistic")
          [] h = "num_round" -> Lit("100")]

Merge(f, g) ==
    [k \in (DOMAIN f) \cup (DOMAIN g) |-> IF k \in DOMAIN f THEN f[k] ELSE g[k]]

xgboost_image == "xgboost:1"

training_step ==
    [name |-> "Train Step", creates |-> "TrainingJob", named |-> "TrainingJobName",
     params |-> Merge([p \in {"TrainingJobName", "InstanceType", "TrainingImage"} |->
                        CASE p = "TrainingJobName" -> Path("JobName")
                          [] p = "InstanceType" -> Lit("ml.m4.4xlarge")
                          [] p = "TrainingImage" -> Lit(xgboost_image)],
                      HyperParameters)]

model_step ==
    [name |-> "Save model", creates |-> "Model", named |-> "ModelName",
     params |-> [p \in {"ModelName", "Image"} |->
                    IF p = "ModelName" THEN Path("ModelName") ELSE Lit(xgboost_image)]]

transform_step ==
    [name |-> "Transform Input Dataset", creates |-> "TransformJob", named |-> "TransformJobName",
     params |-> [p \in {"TransformJobName", "ModelName", "InstanceType"} |->
                    CASE p = "TransformJobName" -> Path("JobName")
                      [] p = "ModelName" -> Path("ModelName")
                      [] p = "InstanceType" -> Lit("ml.m5.large")]]

endpoint_config_step ==
    [name |-> "Create Endpoint Config", creates |-> "EndpointConfig", named |-> "EndpointConfigName",
     params |-> [p \in {"EndpointConfigName", "ModelName", "InstanceType"} |->
                    CASE p = "EndpointConfigName" -> Path("ModelName")
                      [] p = "ModelName" -> Path("ModelName")
                      [] p = "InstanceType" -> Lit("ml.m5.large")]]

endpoint_step ==
    [name |-> "Create Endpoint", creates |-> "Endpoint", named |-> "EndpointName",
     params |-> [p \in {"EndpointName", "EndpointConfigName"} |->
                    IF p = "EndpointName" THEN Path("EndpointName") ELSE Path("ModelName")]]

\* A chain that links every step to itself-plus-two (skips every other step).
ChainSkipping(chained) ==
    [StartAt |-> 1,
     States |-> [i \in 1..Len(chained) |->
                    [step |-> chained[i],
                     Next |-> IF i + 2 <= Len(chained) THEN i + 2 ELSE 0]]]

\* steps.Chain: each step's Next is the step that follows it in the list, the
\* last step ends the execution (Next = 0) and the first one starts it.
Chain(chained) ==
    [StartAt |-> 1,
     States |-> [i \in 1..Len(chained) |->
                    [step |-> chained[i],
                     Next |-> IF i < Len(chained) THEN i + 1 ELSE 0]]]

workflow_definition ==
    Chain(<<training_step, model_step, transform_step, endpoint_config_step, endpoint_step>>)

\* A validation that checks the presence of the keys but not their types.
ValidateKeysOnly(schema, inputs) == \A k \in DOMAIN schema : k \in DOMAIN inputs

\* "When you execute your workflow the SDK will verify if the dynamic input
\* conforms to the schema you defined."
Validate(schema, inputs) ==
    \A k \in DOMAIN schema : k \in DOMAIN inputs /\ inputs[k].t = schema[k]

\* uuid.uuid1(): the clock reading, moved past the last timestamp handed out.
Uuid1(now, last) == IF now > last THEN now ELSE last + 1

\* The inputs of the workflow.execute cell: three names, three uuid1 calls.
ExecuteInputs(now) ==
    LET u1 == Uuid1(now, uuidLast)
        u2 == Uuid1(now, u1)
        u3 == Uuid1(now, u2)
    IN  [k \in {"JobName", "ModelName", "EndpointName"} |->
            CASE k = "JobName" -> Formatted("xgboost-", u1)
              [] k = "ModelName" -> Formatted("xgboost-", u2)
              [] k = "EndpointName" -> Formatted("xgboost-", u3)]

\* The cell as written, and the cell edited to leave a name out or to pass a
\* number for it.
Edits ==
    {[kind |-> "asis", key |-> ""]}
        \cup {[kind |-> e, key |-> k] : e \in {"drop", "int"}, k \in DOMAIN execution_input}

Edited(inputs, edit) ==
    CASE edit.kind = "asis" -> inputs
      [] edit.kind = "drop" -> [k \in (DOMAIN inputs) \ {edit.key} |-> inputs[k]]
      [] edit.kind = "int" -> [inputs EXCEPT ![edit.key] = Num(5)]

NewExecution(via, origin, definition, inputs) ==
    [via |-> via, origin |-> origin, definition |-> definition, input |-> inputs,
     cur |-> 0, status |-> "RUNNING", events |-> <<>>]

\* workflow.execute(inputs=...): the inputs are validated against the schema
\* of the workflow; a ValueError leaves no execution behind.  The clock has
\* moved on by some amount since it was last read.
SdkExecute ==
    /\ Len(sdkCalls) < MaxSdkCalls
    /\ \E edit \in Edits, now \in clock..MaxClock :
         LET inputs == Edited(ExecuteInputs(now), edit)
             valid == Validate(execution_input, inputs)
         IN  /\ clock' = now
             /\ uuidLast' = Uuid1(now, Uuid1(now, Uuid1(now, uuidLast)))
             /\ sdkCalls' = Append(sdkCalls,
                    [inputs |-> inputs, outcome |-> IF valid THEN "started" ELSE "ValueError"])
             /\ executions' =
                    IF valid
                    THEN Append(executions,
                            NewExecution("sdk", Len(sdkCalls) + 1, workflow_definition, inputs))
                    ELSE executions
    /\ UNCHANGED <<sagemaker, prepVars, pipeVars, moreVars>>

\* ------------------------------------------- the Step Functions service
\* The state an execution enters next: StartAt, or Next of the current one.
NextState(e) ==
    IF e.cur = 0 THEN e.definition.StartAt ELSE e.definition.States[e.cur].Next

Resolvable(step, inputs) ==
    \A p \in DOMAIN step.params : step.params[p].path => step.params[p].s \in DOMAIN inputs

Resolved(step, inputs) ==
    [p \in DOMAIN step.params |->
        IF step.params[p].path THEN inputs[step.params[p].s].v
        ELSE <<step.params[p].s, -1>>]

\* An execution enters its next state.  The paths of the state are resolved
\* against the execution input, and the task asks SageMaker to create its
\* resource; an unresolved path or a name already in use fails the execution.
EnterState(i) ==
    LET e == executions[i]
        n == NextState(e)
        step == e.definition.States[n].step
        ok == Resolvable(step, e.input)
        made == [kind |-> step.creates,
                 name |-> Resolved(step, e.input)[step.named],
                 params |-> Resolved(step, e.input)]
        free == \A m \in sagemaker : ~(m.kind = made.kind /\ m.name = made.name)
    IN  /\ e.status = "RUNNING"
        /\ IF e.cur = 0 THEN TRUE ELSE e.events[Len(e.events)][2] = "Succeeded"
        /\ n # 0
        /\ IF ok /\ free
           THEN /\ executions' = [executions EXCEPT ![i] =
                        [e EXCEPT !.cur = n,
                                  !.events = Append(@, <<step.name, "Entered">>)]]
                /\ sagemaker' = sagemaker \cup {made}
           ELSE /\ executions' = [executions EXCEPT ![i] =
                        [e EXCEPT !.cur = n,
                                  !.status = "FAILED",
                                  !.events = @ \o <<<<step.name, "Entered">>, <<step.name, "Failed">>>>]]
                /\ sagemaker' = sagemaker
        /\ UNCHANGED <<clock, uuidLast, sdkCalls, prepVars, pipeVars, moreVars>>

\* The task of the current state ends well; after the last state the
\* execution has succeeded.
TaskSucceeds(i) ==
    LET e == executions[i]
    IN  /\ e.status = "RUNNING"
        /\ e.cur # 0
        /\ e.events[Len(e.events)][2] = "Entered"
        /\ executions' = [executions EXCEPT ![i] =
                [e EXCEPT !.events = Append(@, <<e.definition.States[e.cur].step.name, "Succeeded">>),
                          !.status = IF e.definition.States[e.cur].Next = 0
                                     THEN "SUCCEEDED" ELSE "RUNNING"]]
        /\ UNCHANGED <<clock, uuidLast, sdkCalls, sagemaker, prepVars, pipeVars, moreVars>>

\* The task of the current state fails (no Retry, no Catch): execution failed.
TaskFails(i) ==
    LET e == executions[i]
    IN  /\ e.status = "RUNNING"
        /\ e.cur # 0
        /\ e.events[Len(e.events)][2] = "Entered"
        /\ executions' = [executions EXCEPT ![i] =
                [e EXCEPT !.events = Append(@, <<e.definition.States[e.cur].step.name, "Failed">>),
                          !.status = "FAILED"]]
        /\ UNCHANGED <<clock, uuidLast, sdkCalls, sagemaker, prepVars, pipeVars, moreVars>>

StepFunctions ==
    \E i \in 1..Len(executions) : EnterState(i) \/ TaskSucceeds(i) \/ TaskFails(i)


\* ================================================== Lab 5: the pipeline
NoJson == [k \in {} |-> Str("")]
NoConfig == [gen |-> 0, json |-> NoJson]

\* datetime.datetime.now(tz=None).strftime("%d-%m-%Y-%H-%M-%S"): the clock
\* reading cut down to whole seconds.
Timestamp(now) == now \div TicksPerSecond

\* params of the first config cell.
params(timestamp) ==
    [k \in {"JobName", "ModelName", "EndpointName"} |->
        CASE k = "JobName" -> Formatted("mlops-job-", timestamp)
          [] k = "ModelName" -> Formatted("mlops-model-", timestamp)
          [] k = "EndpointName" -> Formatted("mlops-endpoint-", timestamp)]

\* params of the second config cell: the three names, the instance type, the
\* container image, and the hyperparameters in a nested dictionary.
paramsParametrized(timestamp) ==
    Merge(params(timestamp),
          [k \in {"InstanceType", "ContainerImage", "HyperParameters"} |->
              CASE k = "InstanceType" -> Str("ml.m5.4xlarge")
                [] k = "ContainerImage" -> Str("sagemaker-decision-trees:0.1.0")
                [] k = "HyperParameters" ->
                     Dict([h \in DOMAIN HyperParameters |->
                            CASE h = "max_depth" -> <<"10", -1>>
                              [] h = "eta" -> <<"0.4", -1>>
                              [] h = "gamma" -> <<"4", -1>>
                              [] h = "min_child_weight" -> <<"5", -1>>
                              [] h = "subsample" -> <<"0.8", -1>>
                              [] h = "silent" -> <<"0", -1>>
                              [] h = "objective" -> <<"binary:logistic", -1>>
                              [] h = "num_round" -> <<"50", -1>>])])

\* The edit of mlops/train_workflow.yml that Lab 5 instructs: ml.m4.4xlarge,
\* the xgboost image and each hyperparameter become $$.Execution.Input[...].
ParametrizeParams(ps) ==
    [p \in DOMAIN ps |->
        IF ps[p] = Lit("ml.m4.4xlarge") THEN Path("InstanceType")
        ELSE IF ps[p] = Lit(xgboost_image) THEN Path("ContainerImage")
        ELSE IF p \in DOMAIN HyperParameters THEN Path(p)
        ELSE ps[p]]

Parametrized(definition) ==
    [definition EXCEPT !.States =
        [i \in DOMAIN definition.States |->
            [definition.States[i] EXCEPT !.step.params = ParametrizeParams(@)]]]

PipeIdle ==
    /\ configFile = NoConfig
    /\ configGen = 0
    /\ trigger = <<>>
    /\ versioning = FALSE
    /\ trainWorkflow = workflow_definition
    /\ deployed = FALSE
    /\ detected = 0
    /\ runs = <<>>

\* The first config cell: config.json with three names made of the timestamp.
WriteConfig ==
    /\ configGen < MaxConfigs
    /\ configGen' = configGen + 1
    /\ \E now \in clock..MaxClock :
         /\ clock' = now
         /\ configFile' = [gen |-> configGen + 1, json |-> params(Timestamp(now))]
    /\ UNCHANGED <<trigger, versioning, trainWorkflow, deployed, detected, runs,
                   uuidLast, sdkCalls, executions, sagemaker, prepVars, moreVars>>

\* zip config.zip config.json; aws s3 cp config.zip s3://$S3Bucket/$S3Key
ZipUpload ==
    /\ configFile # NoConfig
    /\ Len(trigger) < MaxUploads
    /\ trigger' = Append(trigger, [config |-> configFile, versioned |-> versioning])
    /\ UNCHANGED <<configFile, configGen, versioning, trainWorkflow, deployed,
                   detected, runs, flowVars, prepVars, moreVars>>

\* The second config cell: it writes config.json, zips it and uploads it.
WriteConfigParametrized ==
    /\ configGen < MaxConfigs
    /\ Len(trigger) < MaxUploads
    /\ configGen' = configGen + 1
    /\ \E now \in clock..MaxClock :
         /\ clock' = now
         /\ configFile' = [gen |-> configGen + 1, json |-> paramsParametrized(Timestamp(now))]
    /\ trigger' = Append(trigger, [config |-> configFile', versioned |-> versioning])
    /\ UNCHANGED <<versioning, trainWorkflow, deployed, detected, runs,
                   uuidLast, sdkCalls, executions, sagemaker, prepVars, moreVars>>

\* "Go to the S3 console ... Enable Versioning followed by Save"
EnableVersioning ==
    /\ ~versioning
    /\ versioning' = TRUE
    /\ UNCHANGED <<configFile, configGen, trigger, trainWorkflow, deployed,
                   detected, runs, flowVars, prepVars, moreVars>>

\* The modified state machine template is pushed and the stack updates.
Parametrize ==
    /\ trainWorkflow = workflow_definition
    /\ trainWorkflow' = Parametrized(trainWorkflow)
    /\ UNCHANGED <<configFile, configGen, trigger, versioning, deployed,
                   detected, runs, flowVars, prepVars, moreVars>>

\* ------------------------------------------------ the training pipeline
NewRun == [stage |-> "Source", status |-> "InProgress", artifact |-> 0, exec |-> 0]

\* aws cloudformation deploy --template-file ./mlops/train_pipeline.yml: the
\* pipeline is created and runs once.
DeployPipeline ==
    /\ ~deployed
    /\ deployed' = TRUE
    /\ runs' = Append(runs, NewRun)
    /\ detected' = Len(trigger)
    /\ UNCHANGED <<configFile, configGen, trigger, versioning, trainWorkflow,
                   flowVars, prepVars, moreVars>>

\* A pipeline whose change detection is switched off.
PollingDisabled == FALSE

\* The trigger location holds a version the pipeline has not seen yet.
SourceChanged == Len(trigger) > detected

\* The S3 source action has no PollForSourceChanges: false, so the pipeline
\* polls the trigger location and starts a run when it finds the object
\* changed since it last looked; what it has then seen is the latest version.
PollSource ==
    /\ deployed
    /\ SourceChanged
    /\ detected' = Len(trigger)
    /\ runs' = Append(runs, NewRun)
    /\ UNCHANGED <<configFile, configGen, trigger, versioning, trainWorkflow,
                   deployed, flowVars, prepVars, moreVars>>

\* A source action that never fails.
SourceAlwaysSucceeds == TRUE

\* The S3 source action finds a versioned object at S3DataBucket/S3DataKey.
SourceSucceeds == trigger # <<>> /\ versioning

\* Stage Source, action Data: it fetches the latest version of the object as
\* SourceArtifact, or fails.  A run that was waiting to enter StartTraining
\* is superseded by the run that completes Source after it.
SourceAction(r) ==
    /\ runs[r].stage = "Source"
    /\ runs[r].status = "InProgress"
    /\ \A q \in 1..(r - 1) : ~(runs[q].stage = "Source" /\ runs[q].status = "InProgress")
    /\ IF SourceSucceeds
       THEN runs' = [q \in 1..Len(runs) |->
                        IF q = r THEN [runs[q] EXCEPT !.status = "Succeeded",
                                                      !.artifact = Len(trigger)]
                        ELSE IF runs[q].stage = "Source" /\ runs[q].status = "Succeeded"
                        THEN [runs[q] EXCEPT !.status = "Superseded"]
                        ELSE runs[q]]
       ELSE runs' = [runs EXCEPT ![r].status = "Failed"]
    /\ UNCHANGED <<configFile, configGen, trigger, versioning, trainWorkflow,
                   deployed, detected, flowVars, prepVars, moreVars>>

\* config.json of the zip a run holds as SourceArtifact.
ArtifactInput(artifact) ==
    IF artifact \in 1..Len(trigger) THEN trigger[artifact].config ELSE NoConfig

\* Stage StartTraining, action StartStepFunctions: once Source has succeeded
\* and the stage is free, the state machine is started with the file
\* config.json of SourceArtifact as its input (InputType: FilePath).
StartTraining(r) ==
    /\ runs[r].stage = "Source"
    /\ runs[r].status = "Succeeded"
    /\ \A q \in 1..Len(runs) : ~(runs[q].stage = "StartTraining" /\ runs[q].status = "InProgress")
    /\ executions' = Append(executions,
            NewExecution("pipeline", ArtifactInput(runs[r].artifact).gen, trainWorkflow,
                         ArtifactInput(runs[r].artifact).json))
    /\ runs' = [runs EXCEPT ![r] = [@ EXCEPT !.stage = "StartTraining",
                                              !.status = "InProgress",
                                              !.exec = Len(executions) + 1]]
    /\ UNCHANGED <<clock, uuidLast, sdkCalls, sagemaker, configFile, configGen,
                   trigger, versioning, trainWorkflow, deployed, detected, prepVars, moreVars>>

\* The action ends when the execution it started has ended.
FinishTraining(r) ==
    /\ runs[r].stage = "StartTraining"
    /\ runs[r].status = "InProgress"
    /\ executions[runs[r].exec].status # "RUNNING"
    /\ runs' = [runs EXCEPT ![r].status =
                    IF executions[runs[r].exec].status = "SUCCEEDED"
                    THEN "Succeeded" ELSE "Failed"]
    /\ UNCHANGED <<configFile, configGen, trigger, versioning, trainWorkflow,
                   deployed, detected, flowVars, prepVars, moreVars>>

CodePipeline ==
    \/ PollSource
    \/ \E r \in 1..Len(runs) : SourceAction(r) \/ StartTraining(r) \/ FinishTraining(r)

Notebook5 ==
    \/ WriteConfig \/ ZipUpload \/ WriteConfigParametrized
    \/ EnableVersioning \/ Parametrize \/ DeployPipeline

\* ---------------------------------------- the infrastructure pipeline
\* Nothing has been committed and no infrastructure stack exists.
InfraIdle ==
    /\ master = <<>>
    /\ infraDetected = 0
    /\ infraRuns = <<>>
    /\ ecr = {}

\* The values VERSION takes in container/version.txt.
Versions == {"0.1.0", "0.2.0"}

\* printf "VERSION=0.2.0\nNAME=sagemaker-decision-trees" > container/version.txt
version_txt(v) ==
    [k \in {"VERSION", "NAME"} |->
        IF k = "VERSION" THEN v ELSE "sagemaker-decision-trees"]

\* The environment CodeBuild gives the build container.
EnvironmentVariables ==
    [k \in {"IMAGE_REPO_NAME", "AWS_ACCOUNT_ID", "AWS_DEFAULT_REGION"} |->
        CASE k = "IMAGE_REPO_NAME" -> "sagemaker-decision-trees"
          [] k = "AWS_ACCOUNT_ID" -> "AccountId"
          [] k = "AWS_DEFAULT_REGION" -> "Region"]

\* ". ./version.txt": every assignment of the file is made in the shell.
DotSource(file, env) == Merge(file, env)

\* A build that tags every image latest.
DockerTagLatest(env) ==
    [registry |-> <<env["AWS_ACCOUNT_ID"], env["AWS_DEFAULT_REGION"]>>,
     repository |-> env["IMAGE_REPO_NAME"],
     tag |-> "latest"]

\* $AWS_ACCOUNT_ID.dkr.ecr.$AWS_DEFAULT_REGION.amazonaws.com/$IMAGE_REPO_NAME:$VERSION
DockerTag(env) ==
    [registry |-> <<env["AWS_ACCOUNT_ID"], env["AWS_DEFAULT_REGION"]>>,
     repository |-> env["IMAGE_REPO_NAME"],
     tag |-> env["VERSION"]]

\* The build phase of the buildspec, run on the files of a commit.
BuildPhase(commit) == DockerTag(DotSource(commit.version_txt, EnvironmentVariables))

\* docker push: the tag moves to the image just built.
DockerPush(images, name, commit) ==
    {i \in images : i.name # name} \cup {[name |-> name, image |-> commit]}

\* git add; git commit; git push of a changed container/version.txt, or of
\* the new file mlops/train_workflow.yml (git makes no commit of files that
\* have not changed).
GitPush ==
    /\ master # <<>>
    /\ Len(master) < MaxCommits
    /\ \/ \E v \in Versions :
            /\ version_txt(v) # master[Len(master)].version_txt
            /\ master' = Append(master, [master[Len(master)] EXCEPT !.version_txt = version_txt(v)])
       \/ /\ ~master[Len(master)].train_workflow
          /\ master' = Append(master, [master[Len(master)] EXCEPT !.train_workflow = TRUE])
    /\ UNCHANGED <<infraDetected, infraRuns, ecr, outVars, prepVars, flowVars, pipeVars>>

NewInfraRun == [stage |-> "Source", status |-> "InProgress", commit |-> 0,
                pushed |-> <<>>]

\* master has a commit the pipeline has not seen yet.
InfraSourceChanged == Len(master) > infraDetected

\* The CodeCommit source action has no PollForSourceChanges: false, so the
\* pipeline polls the branch and starts a run when its tip has moved.
InfraPoll ==
    /\ infraRuns # <<>>
    /\ InfraSourceChanged
    /\ infraDetected' = Len(master)
    /\ infraRuns' = Append(infraRuns, NewInfraRun)
    /\ UNCHANGED <<master, ecr, outVars, prepVars, flowVars, pipeVars>>

\* What runs waiting between two stages become when run r finishes the stage
\* they have finished: they are superseded.
Supersede(rs, r, stage) ==
    [q \in 1..Len(rs) |->
        IF q # r /\ rs[q].stage = stage /\ rs[q].status = "Succeeded"
        THEN [rs[q] EXCEPT !.status = "Superseded"]
        ELSE rs[q]]

\* Stage Source, action Code: the tip of master becomes SourceArtifact.
InfraSource(r) ==
    /\ infraRuns[r].stage = "Source"
    /\ infraRuns[r].status = "InProgress"
    /\ \A q \in 1..(r - 1) :
         ~(infraRuns[q].stage = "Source" /\ infraRuns[q].status = "InProgress")
    /\ infraRuns' = Supersede([infraRuns EXCEPT ![r].status = "Succeeded",
                                                ![r].commit = Len(master)],
                              r, "Source")
    /\ UNCHANGED <<master, infraDetected, ecr, outVars, prepVars, flowVars, pipeVars>>

\* A run enters the next stage when it has succeeded in the stage before and
\* no other run is in that stage.
EnterStage(r, from, to) ==
    /\ infraRuns[r].stage = from
    /\ infraRuns[r].status = "Succeeded"
    /\ \A q \in 1..Len(infraRuns) :
         ~(infraRuns[q].stage = to /\ infraRuns[q].status = "InProgress")
    /\ infraRuns' = [infraRuns EXCEPT ![r].stage = to, ![r].status = "InProgress"]
    /\ UNCHANGED <<master, infraDetected, ecr, outVars, prepVars, flowVars, pipeVars>>

\* Stage Build, action DockerBuild: the buildspec runs on SourceArtifact and
\* pushes the image it built and tagged.
DockerBuild(r) ==
    /\ infraRuns[r].stage = "Build"
    /\ infraRuns[r].status = "InProgress"
    /\ LET name == BuildPhase(master[infraRuns[r].commit])
       IN  /\ ecr' = DockerPush(ecr, name, infraRuns[r].commit)
           /\ infraRuns' = Supersede([infraRuns EXCEPT ![r].status = "Succeeded",
                                                       ![r].pushed = <<name>>],
                                     r, "Build")
    /\ UNCHANGED <<master, infraDetected, outVars, prepVars, flowVars, pipeVars>>

\* A command of the buildspec fails: the build ends and nothing is pushed.
DockerBuildFails(r) ==
    /\ infraRuns[r].stage = "Build"
    /\ infraRuns[r].status = "InProgress"
    /\ infraRuns' = [infraRuns EXCEPT ![r].status = "Failed"]
    /\ UNCHANGED <<master, infraDetected, ecr, outVars, prepVars, flowVars, pipeVars>>

\* Stage DeployWorkflows, action DeployTrainWorkflow: CloudFormation deploys
\* SourceArtifact::mlops/train_workflow.yml, if the commit has that file.
DeployTrainWorkflow(r) ==
    /\ infraRuns[r].stage = "DeployWorkflows"
    /\ infraRuns[r].status = "InProgress"
    /\ infraRuns' = [infraRuns EXCEPT ![r].status =
                        IF master[infraRuns[r].commit].train_workflow
                        THEN "Succeeded" ELSE "Failed"]
    /\ UNCHANGED <<master, infraDetected, ecr, outVars, prepVars, flowVars, pipeVars>>

DeployPipelineInfra ==
    \/ InfraPoll
    \/ \E r \in 1..Len(infraRuns) :
         \/ InfraSource(r)
         \/ EnterStage(r, "Source", "Build")
         \/ DockerBuild(r)
         \/ DockerBuildFails(r)
         \/ EnterStage(r, "Build", "DeployWorkflows")
         \/ DeployTrainWorkflow(r)

\* ------------------------------------------- Lab 1: the csv files, upload
\* A column of model_data: <<name, -1>> for a numeric column, <<name, c>> for
\* the indicator name_c of category c.
NumericOrder == <<"Glucose", "BloodPressure", "SkinThickness", "Insulin", "BMI",
                  "DiabetesPedigreeFunction", "Age">>

RECURSIVE Ascending(_)
Ascending(S) ==
    IF S = {} THEN <<>>
    ELSE LET least == CHOOSE x \in S : \A y \in S : x <= y
         IN  <<least>> \o Ascending(S \ {least})

\* The columns of model_data, in order: the numeric columns as read, then the
\* indicators of Pregnancies and those of Outcome, each by category.
ModelColumns ==
    LET dc == IF model_data = <<>> THEN {} ELSE DOMAIN model_data[1].dummies
        of(name) == Ascending({k[2] : k \in {d \in dc : d[1] = name}})
    IN  [i \in 1..Len(NumericOrder) |-> <<NumericOrder[i], -1>>]
        \o [i \in 1..Len(of("Pregnancies")) |-> <<"Pregnancies", of("Pregnancies")[i]>>]
        \o [i \in 1..Len(of("Outcome")) |-> <<"Outcome", of("Outcome")[i]>>]

Outcome_0 == <<"Outcome", 0>>
Outcome_1 == <<"Outcome", 1>>

\* df[label] and df.drop(labels, axis=1) raise a KeyError for a label that is
\* no column of df.
HasColumns(columns, labels) == labels \subseteq Range(columns)

\* A drop that keeps the columns it is asked to drop.
DropNothing(columns, labels) == columns

\* df.drop(labels, axis=1): the other columns, in their order.
Drop(columns, labels) == SelectSeq(columns, LAMBDA c : c \notin labels)

At(row, column) ==
    IF column[2] = -1 THEN row.cells[column[1]] ELSE row.dummies[column]

\* df.to_csv(name, index=False, header): a header line if asked for, then one
\* line per row with the values of the columns, without the row labels.
ToCsvFile(name, df, columns, header) ==
    [name |-> name,
     columns |-> columns,
     header |-> IF header THEN <<columns>> ELSE <<>>,
     lines |-> [i \in 1..Len(df) |-> [j \in 1..Len(columns) |-> At(df[i], columns[j])]]]

\* pd.concat([df['Outcome_1'], df.drop(['Outcome_0', 'Outcome_1'], axis=1)], axis=1)
TargetFirst(columns) == <<Outcome_1>> \o Drop(columns, {Outcome_0, Outcome_1})

\* The to_csv cell.  Its first statement raises when model_data has no
\* Outcome_0 or no Outcome_1 column, and then no file is written.
ToCsv ==
    /\ pc = "split"
    /\ files = {}
    /\ IF HasColumns(ModelColumns, {Outcome_0, Outcome_1})
       THEN LET train_data == result[run][1]
                validation_data == result[run][2]
                test_data == result[run][3]
                merged_data == train_data \o validation_data
            IN  /\ files' =
                     { ToCsvFile("train.csv", train_data, TargetFirst(ModelColumns), FALSE),
                       ToCsvFile("validation.csv", validation_data, TargetFirst(ModelColumns), FALSE),
                       ToCsvFile("test.csv", test_data, TargetFirst(ModelColumns), FALSE),
                       ToCsvFile("test-no-outcomes.csv", test_data,
                                 Drop(ModelColumns, {Outcome_0, Outcome_1}), FALSE),
                       ToCsvFile("merged.csv", merged_data, TargetFirst(ModelColumns), FALSE) }
                /\ pc' = "written"
       ELSE /\ pc' = "raised"
            /\ UNCHANGED files
    /\ UNCHANGED <<data, mt, run, frame, model_data, result, session, s3objects,
                   call, payloads, predictions, infraVars, flowVars, pipeVars>>

\* --------------------------------------------------- locations in S3
\* A text is the sequence of its pieces; "/" is always a piece of its own,
\* and a name that begins another name shares its first piece with it.
NoSession == [region |-> "", account |-> ""]
Regions == {"eu-west-1", "us-east-1"}
Accounts == {"111122223333"}

\* session.default_bucket(): sagemaker-{region}-{account}
default_bucket(s) == <<"sagemaker-", s.region, "-", s.account>>

\* prefix = 'sagemaker/diabetes-xgboost', in Lab 1 and in Lab 4
prefix == <<"sagemaker", "/", "diabetes-xgboost">>

\* os.path.join(a, b) for a relative b and an a without trailing slash.
PathJoin(a, b) == a \o <<"/">> \o b

\* The key Lab 1 gives the object it uploads a file to.
UploadKey(name) ==
    CASE name = "train.csv" -> PathJoin(prefix, <<"train", "/", "train", ".csv">>)
      [] name = "validation.csv" -> PathJoin(prefix, <<"validation", "/", "validation", ".csv">>)
      [] name = "test.csv" -> PathJoin(prefix, <<"test", "/", "test", ".csv">>)
      [] name = "test-no-outcomes.csv" ->
            PathJoin(prefix, <<"test", "-no-outcomes", "/", "test", "-no-outcomes", ".csv">>)
      [] name = "merged.csv" -> PathJoin(prefix, <<"merged", "/", "merged", ".csv">>)

\* The upload cell: Bucket(bucket).Object(key).upload_file(name), five times.
Upload ==
    /\ pc = "written"
    /\ s3objects' = s3objects \cup
         { [bucket |-> default_bucket(session), key |-> UploadKey(f.name), body |-> f] :
             f \in files }
    /\ pc' = "uploaded"
    /\ UNCHANGED <<data, mt, run, frame, model_data, result, session, files,
                   call, payloads, predictions, infraVars, flowVars, pipeVars>>

\* bucket_path = 'https://s3-{}.amazonaws.com/{}'.format(region, bucket)
bucket_path(s) ==
    <<"https://", "s3-", s.region, ".amazonaws.com", "/">> \o default_bucket(s)

train_s3_file(s) == bucket_path(s) \o <<"/">> \o prefix \o <<"/", "train">>
validation_s3_file(s) == bucket_path(s) \o <<"/">> \o prefix \o <<"/", "validation">>

\* A transform that reads the location of test.csv.
test_s3_file_test(s) == bucket_path(s) \o <<"/">> \o prefix \o <<"/", "test">>

test_s3_file(s) ==
    bucket_path(s) \o <<"/">> \o prefix \o <<"/", "test", "-no-outcomes">>

\* The data the steps of the workflow read: the channels of the training
\* step and the data of the transform step.
StepData(s) ==
    [c \in {"train", "validation", "transform"} |->
        CASE c = "train" -> train_s3_file(s)
          [] c = "validation" -> validation_s3_file(s)
          [] c = "transform" -> test_s3_file(s)]

\* Where the first "/" of a text stands (0: nowhere).
FirstSlash(text) ==
    IF \E i \in 1..Len(text) : text[i] = "/"
    THEN CHOOSE i \in 1..Len(text) : text[i] = "/" /\ \A j \in 1..(i - 1) : text[j] # "/"
    ELSE 0

\* An S3Uri of the form https://host/bucket/key, as SageMaker reads it: the
\* host ends at the first "/", the bucket at the next, the rest is the key.
ParseS3Uri(uri) ==
    LET afterHost == SubSeq(uri, FirstSlash(uri) + 1, Len(uri))
        cut == FirstSlash(afterHost)
    IN  [bucket |-> SubSeq(afterHost, 1, cut - 1),
         key |-> SubSeq(afterHost, cut + 1, Len(afterHost))]

IsPrefix(p, text) == Len(p) <= Len(text) /\ SubSeq(text, 1, Len(p)) = p

\* S3DataType S3Prefix: every object of the bucket whose key begins with the
\* key of the uri.
S3Prefix(uri, objects) ==
    {o \in objects : o.bucket = ParseS3Uri(uri).bucket /\ IsPrefix(ParseS3Uri(uri).key, o.key)}

\* ------------------------------------------------------ Lab 1: predict
\* A row given to predict is the tuple of its features; one feature is kept.
Features == 1..3

NoCall == [data |-> <<>>, rows |-> 0, split_array |-> <<>>, array |-> 0,
           predictions |-> <<>>, status |-> "none"]

\* int(data.shape[0] / float(rows) + 1)
Sections(n, rows) == (n \div rows) + 1

\* np.array_split(ary, sections): the first n % sections sub-arrays hold
\* n // sections + 1 rows, the others n // sections rows.
ArraySplit(ary, sections) ==
    LET n == Len(ary)
        start(j) == (j - 1) * (n \div sections)
                    + (IF j - 1 < n % sections THEN j - 1 ELSE n % sections)
    IN  [j \in 1..sections |-> SubSeq(ary, start(j) + 1, start(j + 1))]

\* The text the model answers for one row, and the float that text reads as
\* (in tenths).
Score(row) == CASE row[1] = 1 -> "0.1" [] row[1] = 2 -> "0.5" [] row[1] = 3 -> "0.9"
Float(text) == CASE text = "0.1" -> 1 [] text = "0.5" -> 5 [] text = "0.9" -> 9
                 [] OTHER -> -1

\* ','.join(parts): the texts, as sequences of fields and separators.
RECURSIVE Join(_)
Join(parts) ==
    IF parts = <<>> THEN <<>>
    ELSE IF Len(parts) = 1 THEN parts[1]
    ELSE parts[1] \o <<",">> \o Join(Tail(parts))

\* csv_serializer: one line per row of the mini-batch.
csv_serializer(array) == [i \in 1..Len(array) |-> [line |-> array[i]]]

\* The endpoint answers a request with one value per line, comma-separated.
InvokeEndpoint(body) == Join([i \in 1..Len(body) |-> <<Score(body[i].line)>>])

\* np.fromstring(text, sep=','): the fields between the separators, read as
\* floats; a field that is missing reads as -1.
RECURSIVE FromString(_)
FromString(text) ==
    IF text = <<>> THEN <<>>
    ELSE IF Head(text) = "," THEN <<-1>> \o FromString(Tail(text))
    ELSE IF Len(text) = 1 THEN <<Float(text[1])>>
    ELSE <<Float(text[1])>> \o FromString(Tail(Tail(text)))

\* predict(data, rows): the array is split.
PredictCall ==
    /\ call.status = "called"
    /\ call' = [call EXCEPT
                  !.split_array = ArraySplit(call.data, Sections(Len(call.data), call.rows)),
                  !.array = 1,
                  !.status = "running"]
    /\ UNCHANGED <<session, files, s3objects, payloads, predictions, infraVars,
                   prepVars, flowVars, pipeVars>>

\* One turn of the loop: xgb_predictor.predict(array) serializes the
\* mini-batch, which fails on an array without rows, posts it to the endpoint
\* and the answer is joined to predictions.
PredictBatch ==
    /\ call.status = "running"
    /\ call.array <= Len(call.split_array)
    /\ LET array == call.split_array[call.array]
       IN  IF array = <<>>
           THEN /\ call' = [call EXCEPT !.status = "raised"]
                /\ UNCHANGED payloads
           ELSE /\ payloads' = Append(payloads, csv_serializer(array))
                /\ call' = [call EXCEPT
                              !.predictions =
                                  Join(<<call.predictions,
                                         InvokeEndpoint(csv_serializer(array))>>),
                              !.array = call.array + 1]
    /\ UNCHANGED <<session, files, s3objects, predictions, infraVars,
                   prepVars, flowVars, pipeVars>>

\* return np.fromstring(predictions[1:], sep=',')
PredictReturn ==
    /\ call.status = "running"
    /\ call.array > Len(call.split_array)
    /\ predictions' = FromString(Tail(call.predictions))
    /\ call' = [call EXCEPT !.status = "returned"]
    /\ UNCHANGED <<session, files, s3objects, payloads, infraVars,
                   prepVars, flowVars, pipeVars>>

\* ========================================================= specifications
vars == <<prepVars, flowVars, pipeVars, moreVars>>

\* Nothing has been written, uploaded or sent to the endpoint.
OutIdle ==
    /\ session = NoSession
    /\ files = {}
    /\ s3objects = {}
    /\ call = NoCall
    /\ payloads = <<>>
    /\ predictions = <<>>

\* Lab 1 has not run.
PrepIdle ==
    /\ data = <<>>
    /\ mt = [s \in {random_state} |-> <<>>]
    /\ run = 1
    /\ pc = "read"
    /\ frame = <<>>
    /\ model_data = <<>>
    /\ result = NoResult

InitPrep ==
    /\ FlowIdle /\ PipeIdle /\ InfraIdle /\ OutIdle
    /\ \E n \in 0..MaxRows :
         /\ data \in Tables(n)
         /\ mt \in [{random_state} -> Perms(n)]
    /\ run = 1
    /\ pc = "read"
    /\ frame = data
    /\ model_data = <<>>
    /\ result = NoResult

\* The split studied for every table length: the notebook stands after the
\* encoding cell with a table of n rows.
InitSizes ==
    /\ FlowIdle /\ PipeIdle /\ InfraIdle /\ OutIdle
    /\ data = <<>>
    /\ \E n \in (0..MaxSplitRows) \cup {DatasetRows} :
         /\ model_data = LabelFrame(n)
         /\ mt \in [{random_state} -> PermFamily(n)]
    /\ run = 1
    /\ pc = "encoded"
    /\ frame = model_data
    /\ result = NoResult


NextPrep == Impute \/ Encode \/ Shuffle \/ Split \/ Rerun
SpecPrep == InitPrep /\ [][NextPrep]_vars

NextSizes == Shuffle \/ Split
SpecSizes == InitSizes /\ [][NextSizes]_vars

InitWorkflow == PrepIdle /\ FlowIdle /\ PipeIdle /\ InfraIdle /\ OutIdle

NextWorkflow == SdkExecute \/ StepFunctions
SpecWorkflow == InitWorkflow /\ [][NextWorkflow]_vars


InitPipeline == PrepIdle /\ FlowIdle /\ PipeIdle /\ InfraIdle /\ OutIdle

NextPipeline == Notebook5 \/ CodePipeline \/ StepFunctions
SpecPipeline == InitPipeline /\ [][NextPipeline]_vars

\* The trigger studied on its own: the bucket is versioned, the pipeline
\* stack has just been deployed and its first run is in the Source stage; the
\* state machine keeps the definition it was deployed with.
InitTrigger ==
    /\ PrepIdle /\ FlowIdle /\ InfraIdle /\ OutIdle
    /\ configFile = NoConfig
    /\ configGen = 0
    /\ trigger = <<>>
    /\ versioning = TRUE
    /\ trainWorkflow = workflow_definition
    /\ deployed = TRUE
    /\ detected = 0
    /\ runs = <<NewRun>>

NextTrigger ==
    \/ WriteConfig \/ ZipUpload \/ WriteConfigParametrized
    \/ CodePipeline \/ StepFunctions
SpecTrigger == InitTrigger /\ [][NextTrigger]_vars

\* The services keep working: the pipeline polls and runs its actions, and
\* the Step Functions service runs the states of an execution to an end.
FairTrigger ==
    SpecTrigger /\ WF_vars(CodePipeline) /\ WF_vars(StepFunctions)

\* The infrastructure stack has just been created on a repository whose
\* master holds the work of the earlier labs: the pipeline runs once.
InitInfra ==
    /\ PrepIdle /\ FlowIdle /\ PipeIdle /\ OutIdle
    /\ \E v \in Versions :
         master = <<[version_txt |-> version_txt(v), train_workflow |-> FALSE]>>
    /\ infraDetected = 1
    /\ infraRuns = <<NewInfraRun>>
    /\ ecr = {}

NextInfra == GitPush \/ DeployPipelineInfra
SpecInfra == InitInfra /\ [][NextInfra]_vars

\* CodePipeline keeps polling and running the actions of its stages.
FairInfra == SpecInfra /\ WF_vars(DeployPipelineInfra)

\* Lab 1 from the dataset to the files: tables long enough for each of the
\* three sets to hold a row, shuffled in a few orders.
InitFiles ==
    /\ FlowIdle /\ PipeIdle /\ InfraIdle
    /\ session \in [region : Regions, account : Accounts]
    /\ files = {}
    /\ s3objects = {}
    /\ call = NoCall
    /\ payloads = <<>>
    /\ predictions = <<>>
    /\ \E n \in 0..MaxFileRows :
         /\ data \in Tables(n)
         /\ mt \in [{random_state} -> PermFamily(n)]
    /\ run = 1
    /\ pc = "read"
    /\ frame = data
    /\ model_data = <<>>
    /\ result = NoResult

NextFiles == Impute \/ Encode \/ Shuffle \/ Split \/ ToCsv \/ Upload
SpecFiles == InitFiles /\ [][NextFiles]_vars

\* predict is called with an array of rows and a mini-batch size.
InitPredict ==
    /\ PrepIdle /\ FlowIdle /\ PipeIdle /\ InfraIdle
    /\ session = NoSession
    /\ files = {}
    /\ s3objects = {}
    /\ \E n \in 0..MaxPredictRows, rows \in 1..MaxBatchRows :
         \E d \in [1..n -> Features] :
            call = [NoCall EXCEPT !.data = [i \in 1..n |-> <<d[i]>>],
                                  !.rows = rows,
                                  !.status = "called"]
    /\ payloads = <<>>
    /\ predictions = <<>>

NextPredict == PredictCall \/ PredictBatch \/ PredictReturn
SpecPredict == InitPredict /\ [][NextPredict]_vars

\* ============================================================ Lab 1 claims
Cat(parts) == parts[1] \o parts[2] \o parts[3]

\* C1: after the split, train, validation and test are a partition of the
\* rows of model_data: every row of model_data is in exactly one place of
\* exactly one of the three sets, and the sets hold nothing else.
C1_SplitIsPartition ==
    pc = "split" =>
        LET cat == Cat(result[run])
        IN  /\ Len(cat) = Len(model_data)
            /\ \A i \in 1..Len(model_data) :
                 Cardinality({j \in 1..Len(cat) : cat[j] = model_data[i]}) = 1

C1_Witness ==
    /\ pc = "split"
    /\ Len(model_data) = DatasetRows
    /\ frame # model_data
    /\ \A k \in 1..3 : result[run][k] # <<>>

\* The values of a column within one outcome class of the table as read.
ClassValues(df, column, outcome) ==
    {<<i, df[i].cells[column]>> : i \in {j \in 1..Len(df) : df[j].cells["Outcome"] = outcome}}

\* The j-th smallest value of a non-empty indexed family of values.
OrderStatistic(family, j) ==
    CHOOSE v \in {e[2] : e \in family} :
        /\ Cardinality({e \in family : e[2] < v}) < j
        /\ Cardinality({e \in family : e[2] <= v}) >= j

ClassMedian(df, column, outcome) ==
    LET family == ClassValues(df, column, outcome)
        k == Cardinality(family)
    IN  (OrderStatistic(family, (k + 1) \div 2) + OrderStatistic(family, k \div 2 + 1)) \div 2

\* C3: after the imputation cell every row of the table is still there, and
\* each zero it had in one of the five imputed columns now holds the median
\* of that column over the rows of the same outcome class.
C3_ZeroBecomesClassMedian ==
    pc = "imputed" =>
        \A i \in 1..Len(data) :
            \E j \in 1..Len(frame) :
                /\ frame[j].idx = i
                /\ \A c \in Range(columnsToImpute) :
                     data[i].cells[c] = 0 =>
                        frame[j].cells[c] = ClassMedian(data, c, data[i].cells["Outcome"])

C3_Witness ==
    /\ pc = "imputed"
    /\ \E i \in 1..Len(data) : \E c \in Range(columnsToImpute) :
         /\ data[i].cells[c] = 0
         /\ Cardinality(ClassValues(data, c, data[i].cells["Outcome"])) >= 2
         /\ ClassMedian(data, c, data[i].cells["Outcome"]) # 0
         /\ \E j \in 1..Len(frame) :
              frame[j].idx = i /\ frame[j].cells[c] # 0

C5_SplitSizes ==
    pc = "split" =>
        LET n == Len(model_data)
            parts == result[run]
        IN  /\ Len(parts[1]) = (7 * n) \div 10
            /\ Len(parts[2]) = (9 * n) \div 10 - (7 * n) \div 10
            /\ Len(parts[3]) = n - (9 * n) \div 10
            /\ n = DatasetRows => Len(parts[3]) = 77

\* ============================================================ Lab 4 claims
ChainOrder ==
    <<"Train Step", "Save model", "Transform Input Dataset",
      "Create Endpoint Config", "Create Endpoint">>

\* How many states the execution has entered up to its j-th event.
EnteredUpTo(events, j) ==
    Cardinality({m \in 1..j : events[m][2] = "Entered"})

\* C2: in every execution of the Lab 4 workflow the k-th state entered is the
\* k-th step of Train Step, Save model, Transform Input Dataset, Create
\* Endpoint Config, Create Endpoint; a step is entered only right after its
\* predecessor has succeeded, and a successful execution ends with the
\* success of Create Endpoint.
C2_StepsRunInChainOrder ==
    \A i \in 1..Len(executions) :
        LET ev == executions[i].events
        IN  /\ \A j \in 1..Len(ev) :
                 ev[j][2] = "Entered" =>
                    LET k == EnteredUpTo(ev, j)
                    IN  /\ k <= Len(ChainOrder)
                        /\ ev[j][1] = ChainOrder[k]
                        /\ IF k = 1 THEN j = 1
                           ELSE ev[j - 1] = <<ChainOrder[k - 1], "Succeeded">>
            /\ executions[i].status = "SUCCEEDED" =>
                 /\ ev[Len(ev)] = <<"Create Endpoint", "Succeeded">>
                 /\ EnteredUpTo(ev, Len(ev)) = Len(ChainOrder)

C2_Witness ==
    \E i \in 1..Len(executions) :
        /\ executions[i].status = "SUCCEEDED"
        /\ Len(executions[i].events) = 2 * Len(ChainOrder)

Conforming(inputs) ==
    \A k \in {"JobName", "ModelName", "EndpointName"} :
        k \in DOMAIN inputs /\ inputs[k].t = "str"

\* C10: a call of workflow.execute whose input lacks JobName, ModelName or
\* EndpointName, or gives one of them a value that is not a string, is
\* rejected, and no execution (hence no step) comes of it.
C10_BadInputIsRejected ==
    \A c \in 1..Len(sdkCalls) :
        ~Conforming(sdkCalls[c].inputs) =>
            /\ sdkCalls[c].outcome = "ValueError"
            /\ \A i \in 1..Len(executions) :
                 ~(executions[i].via = "sdk" /\ executions[i].origin = c)

C10_Witness ==
    /\ \E c \in 1..Len(sdkCalls) :
         /\ sdkCalls[c].outcome = "ValueError"
         /\ \E k \in DOMAIN sdkCalls[c].inputs : sdkCalls[c].inputs[k].t = "int"
    /\ \E c \in 1..Len(sdkCalls) :
         /\ sdkCalls[c].outcome = "ValueError"
         /\ "ModelName" \notin DOMAIN sdkCalls[c].inputs

\* ============================================================ Lab 5 claims
NameKeys == {"JobName", "ModelName", "EndpointName"}

\* C6: two executions that come of two different calls of workflow.execute,
\* or of two different config.json files, have different JobNames, different
\* ModelNames and different EndpointNames.
C6_NamesAreUnique ==
    \A i, j \in 1..Len(executions) :
        (executions[i].via # executions[j].via \/ executions[i].origin # executions[j].origin) =>
            \A k \in NameKeys :
                (k \in DOMAIN executions[i].input /\ k \in DOMAIN executions[j].input) =>
                    executions[i].input[k] # executions[j].input[k]

\* C7: a run of the training pipeline enters StartTraining only with the
\* artifact of a Source stage that succeeded; while no object exists at the
\* trigger location every run that has ended failed in Source, and no
\* execution of the state machine has been started.
C7_SourceBeforeStartTraining ==
    /\ \A r \in 1..Len(runs) :
         /\ (runs[r].stage = "StartTraining" \/ runs[r].status \in {"Succeeded", "Superseded"}) =>
                (runs[r].artifact \in 1..Len(trigger) /\ versioning)
         /\ (runs[r].stage = "Source" /\ runs[r].status = "Failed") =>
                (runs[r].exec = 0 /\ runs[r].artifact = 0)
         /\ runs[r].exec # 0 <=> runs[r].stage = "StartTraining"
    /\ trigger = <<>> =>
         /\ \A r \in 1..Len(runs) :
              runs[r].stage = "Source" /\ runs[r].status \in {"InProgress", "Failed"}
         /\ \A i \in 1..Len(executions) : executions[i].via # "pipeline"

C7_Witness ==
    /\ deployed
    /\ trigger = <<>>
    /\ versioning
    /\ \E r \in 1..Len(runs) : runs[r].stage = "Source" /\ runs[r].status = "Failed"

\* An upload made with versioning enabled, to a location the pipeline watches.
Uploaded(v) == deployed /\ Len(trigger) >= v /\ trigger[v].versioned

\* C8 as stated: every upload made with versioning enabled eventually starts
\* an execution of the state machine whose input is the config.json of the
\* uploaded zip.
C8_EveryUploadStartsExecution ==
    \A v \in 1..MaxUploads :
        Uploaded(v) ~>
            (\E r \in 1..Len(runs) :
                /\ runs[r].artifact = v
                /\ runs[r].exec # 0
                /\ executions[runs[r].exec].input = trigger[v].config.json)

\* C8 as amended: every upload made with versioning enabled is eventually
\* followed by the start of an execution for the zip that is the latest when
\* the Source action runs (this upload or a later one), and the input of every
\* execution the pipeline starts is the config.json of the zip its run fetched.
C8_LatestUploadStartsExecution ==
    /\ \A v \in 1..MaxUploads :
         Uploaded(v) ~>
            (\E r \in 1..Len(runs) : runs[r].artifact >= v /\ runs[r].exec # 0)
    /\ [](\A r \in 1..Len(runs) :
            runs[r].exec # 0 =>
                /\ runs[r].artifact \in 1..Len(trigger)
                /\ executions[runs[r].exec].via = "pipeline"
                /\ executions[runs[r].exec].input = trigger[runs[r].artifact].config.json)

C8_Witness ==
    /\ Len(trigger) >= 2
    /\ \A v \in 1..2 : Uploaded(v)
    /\ \E r \in 1..Len(runs) : runs[r].artifact = 2 /\ runs[r].exec # 0
    /\ \A r \in 1..Len(runs) : runs[r].artifact # 1

\* C9: an execution of the parametrized state machine started with the second
\* config.json resolves every $$.Execution.Input[...] path of every state.
C9_PathsResolve ==
    \A i \in 1..Len(executions) :
        LET e == executions[i]
        IN  (/\ e.via = "pipeline"
             /\ e.definition = Parametrized(workflow_definition)
             /\ "HyperParameters" \in DOMAIN e.input) =>
                \A n \in DOMAIN e.definition.States :
                    Resolvable(e.definition.States[n].step, e.input)

\* ====================================== claims on the infrastructure pipeline
\* The image a run that built commit c has to publish.
Published(c) ==
    [registry |-> <<"AccountId", "Region">>,
     repository |-> "sagemaker-decision-trees",
     tag |-> master[c].version_txt["VERSION"]]

InfraSucceeded(r) ==
    infraRuns[r].stage = "DeployWorkflows" /\ infraRuns[r].status = "Succeeded"

\* Each successful run has pushed, to the repository sagemaker-decision-trees,
\* an image tagged with the VERSION of container/version.txt at the commit it
\* built.
RunsPublishVersion ==
    \A r \in 1..Len(infraRuns) :
        (infraRuns[r].pushed # <<>> \/ InfraSucceeded(r)) =>
            /\ infraRuns[r].commit \in 1..Len(master)
            /\ infraRuns[r].pushed = <<Published(infraRuns[r].commit)>>
            /\ InfraSucceeded(r) => \E i \in ecr : i.name = Published(infraRuns[r].commit)

RECURSIVE Flatten(_)
Flatten(ss) == IF ss = <<>> THEN <<>> ELSE Head(ss) \o Flatten(Tail(ss))

\* C12: a call of predict ends by returning one prediction per row of data,
\* in the order of the rows: the mini-batches sent to the endpoint, in the
\* order they were sent, hold every row of data exactly once and in row
\* order, and the returned array holds the endpoint's answers in that order.
C12_OnePredictionPerRow ==
    call.status \in {"returned", "raised"} =>
        /\ call.status = "returned"
        /\ Flatten(payloads) = csv_serializer(call.data)
        /\ Len(predictions) = Len(call.data)
        /\ \A i \in 1..Len(call.data) : predictions[i] = Float(Score(call.data[i]))

TrainingFiles == {"train.csv", "validation.csv", "test.csv", "merged.csv"}

\* The rows a file is written from.
WrittenFrom(name) ==
    CASE name = "train.csv" -> result[run][1]
      [] name = "validation.csv" -> result[run][2]
      [] name \in {"test.csv", "test-no-outcomes.csv"} -> result[run][3]
      [] name = "merged.csv" -> result[run][1] \o result[run][2]

\* C13: each of train.csv, validation.csv, test.csv and merged.csv has no
\* header line, one line per row, the target Outcome_1 as its first column
\* and no Outcome_0 or Outcome_1 among its other columns; test-no-outcomes.csv
\* has no header line and no Outcome_0 or Outcome_1 column at all.
C13_TargetFirstNoHeader ==
    \A f \in files :
        /\ f.header = <<>>
        /\ Len(f.lines) = Len(WrittenFrom(f.name))
        /\ \A i \in 1..Len(f.lines) : Len(f.lines[i]) = Len(f.columns)
        /\ f.name \in TrainingFiles =>
             /\ f.columns[1] = Outcome_1
             /\ \A j \in 2..Len(f.columns) : f.columns[j][1] # "Outcome"
             /\ \A i \in 1..Len(f.lines) :
                  f.lines[i][1] = WrittenFrom(f.name)[i].dummies[Outcome_1]
        /\ f.name = "test-no-outcomes.csv" =>
             \A j \in 1..Len(f.columns) : f.columns[j][1] # "Outcome"

C13_Witness ==
    /\ pc = "written"
    /\ {f.name : f \in files} = TrainingFiles \cup {"test-no-outcomes.csv"}
    /\ \A f \in files : f.lines # <<>>
    /\ \E f \in files : f.name = "merged.csv" /\ \E i, j \in 1..Len(f.lines) :
                            f.lines[i][1] # f.lines[j][1]

\* What one-hot encoding the columns encoded makes of table before: table
\* after has the same rows under the same labels, every column that is not
\* encoded with the values it had, and for each encoded column one indicator
\* per category found in it, 1 in the rows of that category and 0 elsewhere.
OneHot(before, after, encoded) ==
    /\ Len(after) = Len(before)
    /\ \A i \in 1..Len(before) :
         /\ after[i].idx = before[i].idx
         /\ \A c \in Columns \ encoded :
              c \in DOMAIN after[i].cells /\ after[i].cells[c] = before[i].cells[c]
         /\ \A c \in encoded : c \notin DOMAIN after[i].cells
         /\ \A k \in DOMAIN after[i].dummies :
              k[1] \in encoded /\ k[2] \in Categories(before, k[1])
         /\ \A c \in encoded : \A v \in Categories(before, c) :
              /\ <<c, v>> \in DOMAIN after[i].dummies
              /\ after[i].dummies[<<c, v>>] = (IF before[i].cells[c] = v THEN 1 ELSE 0)

\* C14 as stated: the encoding step one-hot encodes the column Pregnancies
\* and leaves every other column of the table as it was before the step.
C14_EncodesPregnanciesOnly ==
    [][Encode => (OneHot(frame, frame', {"Pregnancies"}) /\ model_data' = frame')]_vars

\* C14 as amended: the encoding step one-hot encodes the two columns it casts
\* to category, Pregnancies and Outcome (which becomes Outcome_0 and
\* Outcome_1), and leaves every other column of the table as it was before
\* the step.
C14_EncodesPregnanciesAndOutcome ==
    [][Encode => (OneHot(frame, frame', {"Pregnancies", "Outcome"})
                    /\ model_data' = frame')]_vars

C14_Witness ==
    /\ pc = "encoded"
    /\ Len(model_data) = MaxRows
    /\ {<<"Pregnancies", 0>>, <<"Pregnancies", 1>>, <<"Outcome", 0>>, <<"Outcome", 1>>}
         \subseteq DOMAIN model_data[1].dummies
    /\ \E i, j \in 1..Len(model_data) :
         /\ model_data[i].dummies[<<"Outcome", 1>>] = 1
         /\ model_data[j].dummies[<<"Outcome", 1>>] = 0
    /\ "Outcome" \notin DOMAIN model_data[1].cells

\* The file Lab 1 wrote for a channel of Lab 4.
ChannelFile(c) ==
    CASE c = "train" -> "train.csv"
      [] c = "validation" -> "validation.csv"
      [] c = "transform" -> "test-no-outcomes.csv"

\* C15: once Lab 1 has uploaded its files, what the training and transform
\* steps of Lab 4 read as train, validation and test-no-outcomes data is, in
\* the same bucket and under the same prefix, what Lab 1 uploaded as
\* train.csv, validation.csv and test-no-outcomes.csv, and nothing else.
C15_WorkflowReadsLab1Uploads ==
    pc = "uploaded" =>
        \A c \in DOMAIN StepData(session) :
            /\ ParseS3Uri(StepData(session)[c]).bucket = default_bucket(session)
            /\ IsPrefix(prefix, ParseS3Uri(StepData(session)[c]).key)
            /\ S3Prefix(StepData(session)[c], s3objects) =
                 {o \in s3objects : o.body.name = ChannelFile(c)}
            /\ \E o \in s3objects : o.body.name = ChannelFile(c) /\ o.body \in files

C15_Witness ==
    /\ pc = "uploaded"
    /\ Cardinality(s3objects) = 5
    /\ \A o \in s3objects : o.body.lines # <<>>
    /\ \A c \in DOMAIN StepData(session) :
         Cardinality(S3Prefix(StepData(session)[c], s3objects)) = 1

====
